---------------------------- MODULE Spec2Model ----------------------------
(***************************************************************************)
(* Model of the fetch server of mcp_server_fetch2                          *)
(* (src/src/mcp_server_fetch2/server.py and __init__.py): start-up         *)
(* configuration, the fetch tool (validation, robots.txt check, HTTP GET,  *)
(* content classification, PDF extraction with its TTL cache, pagination). *)
(*                                                                         *)
(* Strings.  A short string (URL, content-type) is a sequence of           *)
(* one-character strings.  A text (response body, extracted content,       *)
(* output) is a run-length encoded string: a sequence of runs              *)
(* [ch |-> c, n |-> k] (k >= 1, adjacent runs differ in ch), so that texts *)
(* of ten million characters are ordinary values.                          *)
(***************************************************************************)
EXTENDS Integers, Sequences, FiniteSets, TLC

(***************************************************************************)
(* Program constants                                                       *)
(***************************************************************************)
\* server.py:194  max_length >= 1000000 is rejected
MaxLengthLimit == 1000000
\* the cap of the cached PDF text, server.py:110
PdfTextCap == 10000000
\* server.py:115  TTLCache(maxsize=20, ttl=600)
CacheMaxSize == 20
CacheTtl == 600
\* server.py:151  page_raw[:100]
HtmlSniffLen == 100
\* server.py:176  max_length: int = 5000
DefaultMaxLength == 5000

(***************************************************************************)
(* Bounds of the model                                                     *)
(***************************************************************************)
\* concurrent fetch calls in flight (asyncio tasks)
NumCalls == 2
\* the clock advances in steps of TickStep seconds up to MaxNow
TickStep == 300
MaxNow == 600
\* distinct PDF URLs requested in the cache-capacity workload
MaxUrl == 21
\* length of the contents paginated in the pagination walk
MaxLen == 5
\* temporary files that failed conversions may leave behind
MaxLeaked == 1

(***************************************************************************)
(* Run-length encoded texts                                                *)
(***************************************************************************)
Run(c, k) == [ch |-> c, n |-> k]

RECURSIVE Norm(_)
\* canonical form: no empty run, no two adjacent runs of the same character
Norm(t) ==
    IF t = <<>> THEN <<>>
    ELSE IF Head(t).n = 0 THEN Norm(Tail(t))
    ELSE LET r == Norm(Tail(t)) IN
         IF r # <<>> /\ Head(r).ch = Head(t).ch
         THEN <<Run(Head(t).ch, Head(t).n + Head(r).n)>> \o Tail(r)
         ELSE <<Head(t)>> \o r

RECURSIVE TLen(_)
\* len(text)
TLen(t) == IF t = <<>> THEN 0 ELSE Head(t).n + TLen(Tail(t))

RECURSIVE Take(_, _)
\* text[:k] for k >= 0
Take(t, k) ==
    IF k <= 0 \/ t = <<>> THEN <<>>
    ELSE IF Head(t).n <= k THEN <<Head(t)>> \o Take(Tail(t), k - Head(t).n)
    ELSE <<Run(Head(t).ch, k)>>

RECURSIVE Drop(_, _)
\* text[k:] for k >= 0
Drop(t, k) ==
    IF k <= 0 \/ t = <<>> THEN t
    ELSE IF Head(t).n <= k THEN Drop(Tail(t), k - Head(t).n)
    ELSE <<Run(Head(t).ch, Head(t).n - k)>> \o Tail(t)

\* Python's text[a:b] for 0 <= a, 0 <= b
TSlice(t, a, b) == Take(Drop(t, a), b - a)

\* s + t
TCat(s, t) == Norm(s \o t)

\* the text of a short string
Rle(s) == IF s = <<>> THEN <<>> ELSE Norm([i \in 1..Len(s) |-> Run(s[i], 1)])

RECURSIVE Expand(_)
\* the short string of a (short) text
Expand(t) ==
    IF t = <<>> THEN <<>>
    ELSE [i \in 1..Head(t).n |-> Head(t).ch] \o Expand(Tail(t))

(***************************************************************************)
(* Short strings                                                           *)
(***************************************************************************)
\* sub in s
Contains(s, sub) ==
    \E i \in 0..(Len(s) - Len(sub)) :
        \A j \in 1..Len(sub) : s[i + j] = sub[j]

\* s.endswith(suf)
EndsWith(s, suf) ==
    /\ Len(suf) <= Len(s)
    /\ \A j \in 1..Len(suf) : s[Len(s) - Len(suf) + j] = suf[j]

\* s.startswith(pre)
StartsWith(s, pre) ==
    /\ Len(pre) <= Len(s)
    /\ \A j \in 1..Len(pre) : s[j] = pre[j]

\* str.lower() on the letters the model uses
LowerCh(c) ==
    CASE c = "A" -> "a" [] c = "P" -> "p" [] c = "L" -> "l" [] c = "I" -> "i"
      [] c = "C" -> "c" [] c = "T" -> "t" [] c = "O" -> "o" [] c = "N" -> "n"
      [] c = "D" -> "d" [] c = "F" -> "f" [] c = "H" -> "h" [] c = "M" -> "m"
      [] c = "E" -> "e" [] c = "X" -> "x"
      [] OTHER -> c

Lower(s) == [i \in 1..Len(s) |-> LowerCh(s[i])]

Digit(d) ==
    CASE d = 0 -> "0" [] d = 1 -> "1" [] d = 2 -> "2" [] d = 3 -> "3"
      [] d = 4 -> "4" [] d = 5 -> "5" [] d = 6 -> "6" [] d = 7 -> "7"
      [] d = 8 -> "8" [] d = 9 -> "9"

RECURSIVE Decimal(_)
\* str(n) for n >= 0, as the f-string formats next_start
Decimal(n) ==
    IF n < 10 THEN <<Digit(n)>> ELSE Decimal(n \div 10) \o <<Digit(n % 10)>>

DigitValue(c) == CHOOSE d \in 0..9 : Digit(d) = c

RECURSIVE ParseDecimal(_)
\* the number a string of digits denotes
ParseDecimal(s) ==
    IF s = <<>> THEN 0
    ELSE 10 * ParseDecimal(SubSeq(s, 1, Len(s) - 1)) + DigitValue(s[Len(s)])


(***************************************************************************)
(* String literals of the program                                          *)
(***************************************************************************)
\* server.py:144  "application/pdf", ".pdf", b"%PDF-"
StrApplicationPdf == <<"a", "p", "p", "l", "i", "c", "a", "t", "i", "o", "n", "/", "p", "d", "f">>
StrDotPdf == <<".", "p", "d", "f">>
StrPdfMagic == <<"%", "P", "D", "F", "-">>
\* server.py:151  "<html", "text/html"
StrHtmlTag == <<"<", "h", "t", "m", "l">>
StrTextHtml == <<"t", "e", "x", "t", "/", "h", "t", "m", "l">>
\* server.py:32
HtmlErrorMarker ==
    Rle(<<"<", "e", "r", "r", "o", "r", ">", "P", "a", "g", "e", " ", "f", "a", "i", "l", "e", "d", " ", "t", "o", " ", "b", "e", " ", "s", "i", "m", "p", "l", "i", "f", "i", "e", "d", " ", "f", "r", "o", "m", " ", "H", "T", "M", "L", "<", "/", "e", "r", "r", "o", "r", ">">>)

\* Literal pieces of the output, each kept as one symbol of the text.
\* server.py:214, 218
NoMoreContent == <<Run("<error>No more content available.</error>", 1)>>
\* server.py:226
NoticeHead ==
    Run("\n\n<error>Content truncated. Call the fetch tool with a start_index of ", 1)
NoticeTail == Run(" to get more content.</error>", 1)
\* server.py:228
ContentsOf == Run("Contents of ", 1)
ColonNewline == Run(":\n", 1)
\* server.py:159
PrefixHead == Run("Content type ", 1)
PrefixTail ==
    Run(" cannot be simplified to markdown, but here is the raw content:\n", 1)

(***************************************************************************)
(* Pagination (fetch, server.py:212-228)                                   *)
(***************************************************************************)
\* Notice naming the index after next_start
NoticeMut(next_start) ==
    <<NoticeHead>> \o Rle(Decimal(next_start + 1)) \o <<NoticeTail>>

\* the continuation notice naming next_start
Notice(next_start) ==
    <<NoticeHead>> \o Rle(Decimal(next_start)) \o <<NoticeTail>>

\* PageContent with the notice also when nothing remains (remaining >= 0)
PageContentMut(content, start_index, max_length) ==
    LET original_length == TLen(content) IN
    IF start_index >= original_length THEN NoMoreContent
    ELSE LET truncated_content ==
                 TSlice(content, start_index, start_index + max_length) IN
         IF truncated_content = <<>> THEN NoMoreContent
         ELSE LET actual_content_length == TLen(truncated_content)
                  remaining_content ==
                      original_length - (start_index + actual_content_length)
              IN  IF actual_content_length = max_length /\ remaining_content >= 0
                  THEN truncated_content
                           \o Notice(start_index + actual_content_length)
                  ELSE truncated_content

\* the value of `content` after lines 212-226
PageContent(content, start_index, max_length) ==
    LET original_length == TLen(content) IN
    IF start_index >= original_length THEN NoMoreContent
    ELSE LET truncated_content ==
                 TSlice(content, start_index, start_index + max_length) IN
         IF truncated_content = <<>> THEN NoMoreContent
         ELSE LET actual_content_length == TLen(truncated_content)
                  remaining_content ==
                      original_length - (start_index + actual_content_length)
              IN  IF actual_content_length = max_length /\ remaining_content > 0
                  THEN truncated_content
                           \o Notice(start_index + actual_content_length)
                  ELSE truncated_content

\* f"{prefix}Contents of {url}:\n{content}"
FormatOutput(prefix, url, content) ==
    prefix \o <<ContentsOf>> \o Rle(url) \o <<ColonNewline>> \o content

\* the string fetch returns for an extracted (content, prefix)
Paginate(content, prefix, url, start_index, max_length) ==
    FormatOutput(prefix, url, PageContent(content, start_index, max_length))


(***************************************************************************)
(* Content classification and extraction (fetch_url, server.py:142-160)    *)
(***************************************************************************)
\* response.text: bytes that are not valid text decode to U+FFFD
DecodeCh(c) == IF c = "\\xff" THEN "\\ufffd" ELSE c

RECURSIVE Decode(_)
Decode(raw_bytes) ==
    IF raw_bytes = <<>> THEN <<>>
    ELSE TCat(<<Run(DecodeCh(Head(raw_bytes).ch), Head(raw_bytes).n)>>,
              Decode(Tail(raw_bytes)))

\* IsPdf comparing the content-type as it is (no .lower())
IsPdfMut(content_type, url, raw_bytes) ==
    \/ Contains(content_type, StrApplicationPdf)
    \/ EndsWith(Lower(url), StrDotPdf)
    \/ StartsWith(Expand(Take(raw_bytes, Len(StrPdfMagic))), StrPdfMagic)

\* server.py:144
IsPdf(content_type, url, raw_bytes) ==
    \/ Contains(Lower(content_type), StrApplicationPdf)
    \/ EndsWith(Lower(url), StrDotPdf)
    \/ StartsWith(Expand(Take(raw_bytes, Len(StrPdfMagic))), StrPdfMagic)

\* server.py:150-152
IsPageHtml(page_raw, content_type) ==
    \/ Contains(Expand(Take(page_raw, HtmlSniffLen)), StrHtmlTag)
    \/ Contains(content_type, StrTextHtml)
    \/ content_type = <<>>

\* Stand-in for readabilipy + markdownify (external): the markup characters
\* are dropped from the readable part.
Markdownify(html) ==
    Norm(SelectSeq(html, LAMBDA rn : rn.ch \notin {"<", ">", "h", "t", "m", "l"}))

\* extract_content_from_html, server.py:19-37.  `readable` is the readable
\* part readability found ("" when it found none).
ExtractContentFromHtml(readable) ==
    IF readable = <<>> THEN HtmlErrorMarker ELSE Markdownify(readable)

\* server.py:159
RawPrefix(content_type) ==
    <<PrefixHead>> \o Rle(content_type) \o <<PrefixTail>>

\* The branch fetch_url takes (server.py:145, 154, 157).
Classify(content_type, url, raw_bytes, page_raw, force_raw) ==
    IF IsPdf(content_type, url, raw_bytes) THEN "pdf"
    ELSE IF IsPageHtml(page_raw, content_type) /\ ~force_raw THEN "html"
    ELSE "raw"

(***************************************************************************)
(* robots.txt (check_may_autonomously_fetch_url, server.py:58-91)          *)
(* A robots.txt body is a sequence of lines (what splitlines() yields),    *)
(* each a short string; "D" abbreviates the field "Disallow:" of the       *)
(* group of every user agent.                                              *)
(***************************************************************************)
RECURSIVE LStrip(_)
LStrip(s) == IF s # <<>> /\ Head(s) = " " THEN LStrip(Tail(s)) ELSE s

RECURSIVE RStrip(_)
RStrip(s) ==
    IF s # <<>> /\ s[Len(s)] = " " THEN RStrip(SubSeq(s, 1, Len(s) - 1)) ELSE s

\* line.strip()
Strip(s) == RStrip(LStrip(s))

\* server.py:81-83
ProcessedRobotsTxt(lines) ==
    SelectSeq(lines, LAMBDA ln : ~StartsWith(Strip(ln), <<"#">>))

\* urlparse(url).path: what follows scheme://netloc
UrlPath(url) ==
    LET seps == {i \in 1..(Len(url) - 2) :
                    url[i] = ":" /\ url[i + 1] = "/" /\ url[i + 2] = "/"}
    IN  IF seps = {} THEN url
        ELSE LET i == CHOOSE k \in seps : \A m \in seps : k <= m
                 slashes == {j \in (i + 3)..Len(url) : url[j] = "/"}
             IN  IF slashes = {} THEN <<>>
                 ELSE SubSeq(url, CHOOSE k \in slashes :
                                     \A m \in slashes : k <= m, Len(url))

\* Stand-in for Protego.parse(...).can_fetch(url, user_agent) (external):
\* a Disallow line with a non-empty path forbids the URLs whose path
\* starts with it.
CanFetch(lines, url) ==
    LET path == IF UrlPath(url) = <<>> THEN <<"/">> ELSE UrlPath(url) IN
    ~ \E k \in 1..Len(lines) :
         LET line == Strip(lines[k]) IN
         /\ StartsWith(line, <<"D">>)
         /\ Strip(Tail(line)) # <<>>
         /\ StartsWith(path, Strip(Tail(line)))

\* RobotsVerdict without the test for 401 and 403
RobotsVerdictMut(r, url) ==
    IF r.err THEN "connection_error"
    ELSE IF 400 <= r.status /\ r.status < 500 THEN "no_rules"
    ELSE IF ~CanFetch(ProcessedRobotsTxt(r.lines), url) THEN "disallowed"
    ELSE "allowed"

\* The outcome of check_may_autonomously_fetch_url for a robots.txt
\* response r = [err, status, lines].
RobotsVerdict(r, url) ==
    IF r.err THEN "connection_error"
    ELSE IF r.status \in {401, 403} THEN "forbidden"
    ELSE IF 400 <= r.status /\ r.status < 500 THEN "no_rules"
    ELSE IF ~CanFetch(ProcessedRobotsTxt(r.lines), url) THEN "disallowed"
    ELSE "allowed"

(***************************************************************************)
(* The PDF cache: cachetools.TTLCache(maxsize=20, ttl=600), server.py:115. *)
(* The cache is the sequence of its entries [key, value, expires, ret] in  *)
(* the order of TTLCache's links, least recently used first.  `ret` is a   *)
(* history field: the text returned to the caller by the extraction that   *)
(* stored the entry.                                                       *)
(***************************************************************************)
\* TTLCache.expire(time)
CacheExpire(cache, time) == SelectSeq(cache, LAMBDA ex : time < ex.expires)

\* key in cache  (TTLCache.__contains__)
CacheContains(cache, key, time) ==
    \E i \in 1..Len(cache) : cache[i].key = key /\ time < cache[i].expires

CacheEntry(cache, key) ==
    cache[CHOOSE i \in 1..Len(cache) : cache[i].key = key]

\* CacheTouch of a cache whose reads leave the order of the links alone
CacheTouchMut(cache, key) == cache

\* the effect of cache[key] on the cache (TTLCache.__getitem__ looks the
\* link up with __getlink, which moves it to the end of the links)
CacheTouch(cache, key) ==
    SelectSeq(cache, LAMBDA et : et.key # key) \o <<CacheEntry(cache, key)>>

\* TTLCache.popitem on a cache without expired entries
CachePopItem(cache) == Tail(cache)

\* cache[key] = value  (TTLCache.__setitem__)
CacheSet(cache, key, value, ret, time) ==
    LET live == CacheExpire(cache, time)
        entry == [key |-> key, value |-> value,
                  expires |-> time + CacheTtl, ret |-> ret]
    IN  IF \E i \in 1..Len(live) : live[i].key = key
        THEN SelectSeq(live, LAMBDA es : es.key # key) \o <<entry>>
        ELSE (IF Len(live) + 1 > CacheMaxSize THEN CachePopItem(live) ELSE live)
                 \o <<entry>>

\* History of the cached keys: key k was just used (read or stored) ...
MoveToEnd(keys, k) == SelectSeq(keys, LAMBDA ky : ky # k) \o <<k>>

\* ... and, after a store, the keys the cache dropped are forgotten.
Recorded(keys, k, cache) ==
    LET cached == {cache[i].key : i \in 1..Len(cache)} IN
    SelectSeq(MoveToEnd(keys, k), LAMBDA kz : kz \in cached)

\* server.py:110  text[:10_000_000]
CapPdfText(text) == Take(text, PdfTextCap)

\* server.py:111  the text extract_content_from_pdf returns on a miss
PdfMissReturn(text) == text


(***************************************************************************)
(* State                                                                   *)
(***************************************************************************)
VARIABLES
    started,            \* main() has run serve(), hence configure_server()
    cli_flag,           \* --ignore-robots-txt was given on the command line
    ignore_robots_txt,  \* the global _ignore_robots_txt
    pdf_cache,          \* the global _pdf_cache
    now,                \* the cache's timer (time.monotonic, seconds)
    tmp_files,          \* the temporary files that exist
    pc,                 \* per call: where the coroutine is
    call,               \* per call: the arguments of fetch
    io,                 \* per call: the I/O it has issued so far (history)
    pend,               \* per call: raw_bytes and tmp_path of a conversion
    result,             \* per call: what fetch returned or raised
    hist,               \* the cached keys by insertion and by last use (history)
    walk                \* the client paging through one content (history)

vars == <<started, cli_flag, ignore_robots_txt, pdf_cache, now, tmp_files,
          pc, call, io, pend, result, hist, walk>>

Calls == 1..NumCalls

NoCall == [url |-> <<>>, max_length |-> 0, start_index |-> 0, raw |-> FALSE]
NoRobots == [err |-> FALSE, status |-> 0, lines |-> <<>>]
NoResponse ==
    [err |-> FALSE, status |-> 0, content_type |-> <<>>, content |-> <<>>]
NoIo == [robots |-> 0, get |-> 0, convert |-> 0, verdict |-> "none",
         robots_response |-> NoRobots, response |-> NoResponse]
NoPend == [raw_bytes |-> <<>>, tmp_path |-> 0]
NoResult == [kind |-> "none", error |-> "", cls |-> "", content |-> <<>>,
             prefix |-> <<>>, out |-> <<>>]
WalkOff == [on |-> FALSE, content |-> <<>>, m |-> 0, next |-> 0,
            bodies |-> <<>>, pages |-> 0, sizes |-> <<>>, over |-> FALSE,
            marker |-> FALSE]

\* The module's globals as server.py:166-168 and 115 initialise them.
InitServer ==
    /\ started = FALSE
    /\ cli_flag = FALSE
    /\ ignore_robots_txt = TRUE
    /\ pdf_cache = <<>>
    /\ now = 0
    /\ tmp_files = {}
    /\ pc = [c \in Calls |-> "idle"]
    /\ call = [c \in Calls |-> NoCall]
    /\ io = [c \in Calls |-> NoIo]
    /\ pend = [c \in Calls |-> NoPend]
    /\ result = [c \in Calls |-> NoResult]
    /\ hist = [inserted |-> <<>>, used |-> <<>>]

Init == InitServer /\ walk = WalkOff

(***************************************************************************)
(* Start-up (__init__.py:12-28, server.py:230-257)                         *)
(***************************************************************************)
\* argparse's action="store_true": the value of args.ignore_robots_txt
StoreTrue(given) == IF given THEN TRUE ELSE FALSE

\* main() -> serve(..., args.ignore_robots_txt, ...) -> configure_server
Main(given) ==
    /\ ~started
    /\ started' = TRUE
    /\ cli_flag' = given
    /\ ignore_robots_txt' = StoreTrue(given)
    /\ UNCHANGED <<pdf_cache, now, tmp_files, pc, call, io, pend, result, hist,
                   walk>>

(***************************************************************************)
(* fetch (server.py:173-228)                                               *)
(***************************************************************************)
\* ValidationError with the upper bound off by one (max_length > 1000000)
ValidationErrorMut(url, max_length, start_index) ==
    IF max_length <= 0 \/ max_length > MaxLengthLimit THEN "max_length"
    ELSE IF start_index < 0 THEN "start_index"
    ELSE IF url = <<>> THEN "url"
    ELSE "none"

\* server.py:194-201: the validation error raised, "none" when the
\* arguments pass
ValidationError(url, max_length, start_index) ==
    IF max_length <= 0 \/ max_length >= MaxLengthLimit THEN "max_length"
    ELSE IF start_index < 0 THEN "start_index"
    ELSE IF url = <<>> THEN "url"
    ELSE "none"

Failed(c, error) ==
    /\ pc' = [pc EXCEPT ![c] = "failed"]
    /\ result' = [result EXCEPT ![c] = [NoResult EXCEPT !.kind = "error",
                                                        !.error = error]]

\* fetch_url returned (content, prefix); fetch paginates and returns
Returned(c, cls, content, prefix) ==
    /\ pc' = [pc EXCEPT ![c] = "done"]
    /\ result' = [result EXCEPT ![c] =
           [kind |-> "ok", error |-> "", cls |-> cls, content |-> content,
            prefix |-> prefix,
            out |-> Paginate(content, prefix, call[c].url,
                             call[c].start_index, call[c].max_length)]]

\* A client calls fetch: validation, then the first request goes out
\* (robots.txt when enforced, else the target).
Fetch(c, url, max_length, start_index, raw) ==
    /\ started
    /\ pc[c] = "idle"
    /\ call' = [call EXCEPT ![c] = [url |-> url, max_length |-> max_length,
                                    start_index |-> start_index, raw |-> raw]]
    /\ pend' = [pend EXCEPT ![c] = NoPend]
    /\ LET error == ValidationError(url, max_length, start_index) IN
       IF error # "none"
       THEN /\ Failed(c, error)
            /\ io' = [io EXCEPT ![c] = NoIo]
       ELSE /\ result' = [result EXCEPT ![c] = NoResult]
            /\ IF ~ignore_robots_txt
               THEN /\ pc' = [pc EXCEPT ![c] = "robots"]
                    /\ io' = [io EXCEPT ![c] = [NoIo EXCEPT !.robots = 1]]
               ELSE /\ pc' = [pc EXCEPT ![c] = "get"]
                    /\ io' = [io EXCEPT ![c] = [NoIo EXCEPT !.get = 1]]
    /\ UNCHANGED <<started, cli_flag, ignore_robots_txt, pdf_cache, now,
                   tmp_files, hist, walk>>

\* The robots.txt GET of call c ends with response r; when the check
\* passes, the target GET goes out (server.py:206-208).
RobotsDone(c, r) ==
    /\ pc[c] = "robots"
    /\ LET verdict == RobotsVerdict(r, call[c].url) IN
       IF verdict \in {"no_rules", "allowed"}
       THEN /\ pc' = [pc EXCEPT ![c] = "get"]
            /\ io' = [io EXCEPT ![c].verdict = verdict,
                                ![c].robots_response = r,
                                ![c].get = io[c].get + 1]
            /\ UNCHANGED result
       ELSE /\ Failed(c, verdict)
            /\ io' = [io EXCEPT ![c].verdict = verdict,
                                ![c].robots_response = r]
    /\ UNCHANGED <<started, cli_flag, ignore_robots_txt, pdf_cache, now,
                   tmp_files, call, pend, hist, walk>>

\* The target GET of call c ends with response r = [err, status,
\* content_type, content]; fetch_url classifies and extracts
\* (server.py:134-160), a cached PDF included (server.py:96-97).
GetDone(c, r, readable) ==
    /\ pc[c] = "get"
    /\ IF r.err
       THEN Failed(c, "fetch_error") /\ UNCHANGED <<pdf_cache, pend, hist>>
       ELSE IF r.status >= 400
       THEN Failed(c, "status") /\ UNCHANGED <<pdf_cache, pend, hist>>
       ELSE
         LET url == call[c].url
             raw_bytes == r.content
             page_raw == Decode(r.content)
             cls == Classify(r.content_type, url, raw_bytes, page_raw,
                             call[c].raw)
         IN  CASE cls = "pdf" ->
                    IF CacheContains(pdf_cache, url, now)
                    THEN /\ Returned(c, "pdf_hit",
                                     CacheEntry(pdf_cache, url).value, <<>>)
                         /\ pdf_cache' = CacheTouch(pdf_cache, url)
                         /\ hist' = [hist EXCEPT
                                         !.used = MoveToEnd(@, url)]
                         /\ UNCHANGED pend
                    ELSE /\ pc' = [pc EXCEPT ![c] = "thread"]
                         /\ pend' = [pend EXCEPT ![c].raw_bytes = raw_bytes]
                         /\ UNCHANGED <<pdf_cache, result, hist>>
               [] cls = "html" ->
                    /\ Returned(c, "html", ExtractContentFromHtml(readable),
                                <<>>)
                    /\ UNCHANGED <<pdf_cache, pend, hist>>
               [] cls = "raw" ->
                    /\ Returned(c, "raw", page_raw, RawPrefix(r.content_type))
                    /\ UNCHANGED <<pdf_cache, pend, hist>>
    /\ io' = [io EXCEPT ![c].response = r]
    /\ UNCHANGED <<started, cli_flag, ignore_robots_txt, now, tmp_files,
                   call, walk>>

\* the temporary files no running conversion owns
LeakedTmp == tmp_files \ {pend[d].tmp_path : d \in {e \in Calls : pc[e] = "tmp"}}

\* tempfile.NamedTemporaryFile picks a name no existing file has.
FreshTmp == CHOOSE k \in 1..(Cardinality(tmp_files) + 1) : k \notin tmp_files

\* The `with` block of convert_pdf in the worker thread (server.py:99-103):
\* the file is created, then written and flushed; an error of write or
\* flush leaves the block, and convert_pdf, as an exception.
TmpWrite(c, outcome) ==
    /\ pc[c] = "thread"
    /\ outcome # "ok" => Cardinality(LeakedTmp) < MaxLeaked
    /\ tmp_files' = tmp_files \cup {FreshTmp}
    /\ pend' = [pend EXCEPT ![c].tmp_path = FreshTmp]
    /\ io' = [io EXCEPT ![c].convert = io[c].convert + 1]
    /\ IF outcome = "ok"
       THEN pc' = [pc EXCEPT ![c] = "tmp"] /\ UNCHANGED result
       ELSE Failed(c, outcome)
    /\ UNCHANGED <<started, cli_flag, ignore_robots_txt, pdf_cache, now,
                   call, hist, walk>>

\* The try/finally of convert_pdf (server.py:104-108), then back in
\* extract_content_from_pdf (server.py:110-111) and fetch.
ConvertDone(c, ok, text) ==
    /\ pc[c] = "tmp"
    /\ tmp_files' = tmp_files \ {pend[c].tmp_path}
    /\ IF ok
       THEN /\ pdf_cache' = CacheSet(pdf_cache, call[c].url, CapPdfText(text),
                                     PdfMissReturn(text), now)
            /\ Returned(c, "pdf_miss", PdfMissReturn(text), <<>>)
            /\ hist' = [inserted |-> Recorded(hist.inserted, call[c].url,
                                              pdf_cache'),
                        used |-> Recorded(hist.used, call[c].url, pdf_cache')]
       ELSE /\ Failed(c, "convert_error")
            /\ UNCHANGED <<pdf_cache, hist>>
    /\ UNCHANGED <<started, cli_flag, ignore_robots_txt, now, call, io,
                   pend, walk>>

\* The caller has taken what fetch returned or raised; the call is over.
Return(c) ==
    /\ pc[c] \in {"done", "failed"}
    /\ pc' = [pc EXCEPT ![c] = "idle"]
    /\ call' = [call EXCEPT ![c] = NoCall]
    /\ io' = [io EXCEPT ![c] = NoIo]
    /\ pend' = [pend EXCEPT ![c] = NoPend]
    /\ result' = [result EXCEPT ![c] = NoResult]
    /\ UNCHANGED <<started, cli_flag, ignore_robots_txt, pdf_cache, now,
                   tmp_files, hist, walk>>

\* Time passes.
Tick ==
    /\ now + TickStep <= MaxNow
    /\ now' = now + TickStep
    /\ UNCHANGED <<started, cli_flag, ignore_robots_txt, pdf_cache,
                   tmp_files, pc, call, io, pend, result, hist, walk>>


(***************************************************************************)
(* Inputs                                                                  *)
(***************************************************************************)
UrlPage == <<"h", ":", "/", "/", "a", "/", "x">>
UrlPdf == <<"h", ":", "/", "/", "a", "/", "y", ".", "P", "D", "F">>
Urls == {<<>>, UrlPage, UrlPdf}
MaxLengths == {0, 1, 2, MaxLengthLimit - 1, MaxLengthLimit}
StartIndexes == {-1, 0, 1, 3}

StrTextPlain == <<"t", "e", "x", "t", "/", "p", "l", "a", "i", "n">>

ContentTypes ==
    { <<>>,
      StrApplicationPdf,
      <<"A", "p", "p", "l", "i", "c", "a", "t", "i", "o", "n", "/", "P", "D", "F">>,
      StrTextHtml,
      <<"T", "E", "X", "T", "/", "H", "T", "M", "L">>,
      StrTextPlain }

Bodies ==
    { <<>>,
      Rle(StrPdfMagic \o <<"a">>),
      Rle(StrHtmlTag \o <<"a">>),
      <<Run("a", HtmlSniffLen - 5)>> \o Rle(StrHtmlTag),
      <<Run("a", HtmlSniffLen - 4)>> \o Rle(StrHtmlTag),
      Rle(<<"a", "b", "\\xff">>) }

ErrorResponse ==
    [err |-> TRUE, status |-> 0, content_type |-> <<>>, content |-> <<>>]

Response(status, content_type, content) ==
    [err |-> FALSE, status |-> status, content_type |-> content_type,
     content |-> content]

Responses ==
    {ErrorResponse}
        \cup {Response(status, <<>>, <<>>) : status \in {399, 400, 500}}
        \cup {Response(200, ct, body) : ct \in ContentTypes, body \in Bodies}

PdfResponse == Response(200, StrApplicationPdf, Rle(StrPdfMagic \o <<"a">>))

SomeResponses ==
    { ErrorResponse,
      Response(399, <<>>, <<>>),
      Response(400, <<>>, <<>>),
      Response(200, StrTextPlain, Rle(<<"a", "b", "\\xff">>)),
      Response(200, StrTextHtml, Rle(StrHtmlTag \o <<"a">>)),
      PdfResponse }

\* what readability may find readable in a page: nothing, or the page
Readables(r) == {<<>>, Decode(r.content)}

\* what the converter may extract from a PDF
LongText == <<Run("a", PdfTextCap), Run("b", 1)>>
ConvertedTexts == {<<>>, Rle(<<"a", "b">>), <<Run("a", PdfTextCap)>>, LongText}

TmpOutcomes == {"ok", "write_error", "flush_error"}

RobotsError == [err |-> TRUE, status |-> 0, lines |-> <<>>]

RobotsResponse(status, lines) ==
    [err |-> FALSE, status |-> status, lines |-> lines]

\* robots.txt bodies: empty; everything disallowed; the same in a comment,
\* flush left and indented; /x disallowed
RobotsBodies ==
    { <<>>,
      << <<"D", " ", "/">> >>,
      << <<"#", "D", " ", "/">> >>,
      << <<" ", "#", "D", " ", "/">>, <<"D", " ">> >>,
      << <<"D", " ", "/", "x">> >> }

RobotsResponses ==
    {RobotsError}
        \cup {RobotsResponse(status, lines) :
                 status \in {200, 400, 401, 403, 499, 500},
                 lines \in RobotsBodies}

(***************************************************************************)
(* The server with one call at a time and every kind of argument and       *)
(* response.                                                               *)
(***************************************************************************)
Next ==
    \/ \E given \in BOOLEAN : Main(given)
    \/ \E url \in Urls, max_length \in MaxLengths,
          start_index \in StartIndexes, raw \in BOOLEAN :
          Fetch(1, url, max_length, start_index, raw)
    \/ \E r \in {RobotsError, RobotsResponse(200, <<>>),
                 RobotsResponse(200, << <<"D", " ", "/">> >>)} :
          RobotsDone(1, r)
    \/ \E r \in SomeResponses : \E readable \in Readables(r) :
          GetDone(1, r, readable)
    \/ \E outcome \in TmpOutcomes : TmpWrite(1, outcome)
    \/ \E ok \in BOOLEAN, text \in {Rle(<<"a", "b">>), LongText} :
          ConvertDone(1, ok, text)
    \/ Return(1)

Spec == Init /\ [][Next]_vars

(***************************************************************************)
(* The server with default arguments and every kind of response: content   *)
(* classification.                                                         *)
(***************************************************************************)
NextClassify ==
    \/ Main(TRUE)
    \/ \E url \in {UrlPage, UrlPdf}, raw \in BOOLEAN :
          Fetch(1, url, DefaultMaxLength, 0, raw)
    \/ \E r \in Responses : \E readable \in Readables(r) :
          GetDone(1, r, readable)
    \/ \E outcome \in TmpOutcomes : TmpWrite(1, outcome)
    \/ \E ok \in BOOLEAN, text \in {Rle(<<"a", "b">>), LongText} :
          ConvertDone(1, ok, text)
    \/ Return(1)

SpecClassify == Init /\ [][NextClassify]_vars


(***************************************************************************)
(* The server under robots.txt enforcement, with every kind of robots.txt  *)
(* response.                                                               *)
(***************************************************************************)
UrlOther == <<"h", ":", "/", "/", "a", "/", "y">>

NextRobots ==
    \/ \E given \in BOOLEAN : Main(given)
    \/ \E url \in {<<>>, UrlPage, UrlOther}, max_length \in {0, DefaultMaxLength} :
          Fetch(1, url, max_length, 0, FALSE)
    \/ \E r \in RobotsResponses : RobotsDone(1, r)
    \/ \E r \in {ErrorResponse, Response(404, <<>>, <<>>),
                 Response(200, StrTextPlain, Rle(<<"a", "b">>))} :
          GetDone(1, r, <<>>)
    \/ Return(1)

SpecRobots == Init /\ [][NextRobots]_vars

(***************************************************************************)
(* Overlapping fetches of one PDF, while time passes.                      *)
(***************************************************************************)
NextPdf ==
    \/ Main(TRUE)
    \/ \E c \in Calls : Fetch(c, UrlPdf, MaxLengthLimit - 1, 0, FALSE)
    \/ \E c \in Calls : GetDone(c, PdfResponse, <<>>)
    \/ \E c \in Calls, outcome \in TmpOutcomes : TmpWrite(c, outcome)
    \/ \E c \in Calls, ok \in BOOLEAN, text \in ConvertedTexts :
          ConvertDone(c, ok, text)
    \/ \E c \in Calls : Return(c)
    \/ Tick

SpecPdf == Init /\ [][NextPdf]_vars

(***************************************************************************)
(* Fetches of many PDFs: the cache fills up.  New URLs are requested in    *)
(* the order PdfUrl(1), PdfUrl(2), ... by the first call; every other call *)
(* requests PdfUrl(1) again, at any time.                                  *)
(***************************************************************************)
PdfUrl(k) == <<"h", ":", "/", "/", "a", "/">> \o Decimal(k) \o StrDotPdf

KnownUrls ==
    {pdf_cache[i].key : i \in 1..Len(pdf_cache)}
        \cup {call[c].url : c \in {d \in Calls : pc[d] # "idle"}}

NextUrl ==
    LET urls == KnownUrls
        known == {k \in 1..MaxUrl : PdfUrl(k) \in urls} IN
    IF known = {} THEN 1
    ELSE (CHOOSE k \in known : \A j \in known : j <= k) + 1

NextCache ==
    \/ Main(TRUE)
    \/ \E c \in {d \in Calls : pc[d] = "idle"} :
          \E k \in (IF c = 1 THEN {NextUrl} ELSE {1}) :
             /\ k <= MaxUrl
             /\ Fetch(c, PdfUrl(k), DefaultMaxLength, 0, FALSE)
    \/ \E c \in Calls : GetDone(c, PdfResponse, <<>>)
    \/ \E c \in Calls : TmpWrite(c, "ok")
    \/ \E c \in Calls : ConvertDone(c, TRUE, Rle(<<"a", "b">>))
    \/ \E c \in Calls : Return(c)

SpecCache == Init /\ [][NextCache]_vars


(***************************************************************************)
(* Reading the string fetch returned, as its caller does                   *)
(***************************************************************************)
Positions(out, run) == {i \in 1..Len(out) : out[i] = run}

Last(set) == CHOOSE i \in set : \A j \in set : j <= i
First(set) == CHOOSE i \in set : \A j \in set : i <= j

IsDigits(runs) ==
    /\ runs # <<>>
    /\ \A i \in 1..Len(runs) : \E d \in 0..9 : runs[i].ch = Digit(d)

\* the output ends with a continuation notice
HasNotice(out) ==
    /\ Len(out) >= 3
    /\ out[Len(out)] = NoticeTail
    /\ Positions(out, NoticeHead) # {}
    /\ IsDigits(SubSeq(out, Last(Positions(out, NoticeHead)) + 1, Len(out) - 1))

\* the start_index the notice names
NoticeNext(out) ==
    ParseDecimal(Expand(SubSeq(out, Last(Positions(out, NoticeHead)) + 1,
                               Len(out) - 1)))

\* what follows "Contents of <url>:\n", the notice excluded
PageBody(out) ==
    SubSeq(out, First(Positions(out, ColonNewline)) + 1,
           IF HasNotice(out) THEN Last(Positions(out, NoticeHead)) - 1
           ELSE Len(out))

\* what precedes "Contents of "
OutPrefix(out) == SubSeq(out, 1, First(Positions(out, ContentsOf)) - 1)

(***************************************************************************)
(* A client pages through one content: it calls fetch with start_index 0,  *)
(* then with the start_index each continuation notice names, until a page  *)
(* carries no notice.  The server answers every GET with the same content. *)
(***************************************************************************)
WalkContents ==
    {Rle(s) : s \in UNION {[1..n -> {"a", "b"}] : n \in 1..MaxLen}}

InitWalk ==
    /\ InitServer
    /\ walk \in {[WalkOff EXCEPT !.on = TRUE, !.content = content, !.m = m] :
                    content \in WalkContents, m \in 1..(MaxLen + 1)}

WalkFetch ==
    /\ walk.on /\ ~walk.over
    /\ Fetch(1, UrlPage, walk.m, walk.next, FALSE)

WalkGetDone ==
    /\ walk.on
    /\ GetDone(1, Response(200, StrTextPlain, walk.content), <<>>)

\* The client takes the page and notes its body and where to continue.
WalkRecord ==
    /\ walk.on /\ ~walk.over
    /\ pc[1] = "done"
    /\ walk.pages <= MaxLen
    /\ LET out == result[1].out
           body == PageBody(out)
       IN  walk' = [walk EXCEPT
                       !.bodies = TCat(@, body),
                       !.pages = @ + 1,
                       !.sizes = Append(@, TLen(body)),
                       !.next = IF HasNotice(out) THEN NoticeNext(out) ELSE @,
                       !.over = ~HasNotice(out),
                       !.marker = @ \/ body = NoMoreContent]
    /\ pc' = [pc EXCEPT ![1] = "idle"]
    /\ call' = [call EXCEPT ![1] = NoCall]
    /\ io' = [io EXCEPT ![1] = NoIo]
    /\ pend' = [pend EXCEPT ![1] = NoPend]
    /\ result' = [result EXCEPT ![1] = NoResult]
    /\ UNCHANGED <<started, cli_flag, ignore_robots_txt, pdf_cache, now,
                   tmp_files, hist>>

NextWalk ==
    \/ Main(TRUE)
    \/ WalkFetch
    \/ WalkGetDone
    \/ WalkRecord

SpecWalk == InitWalk /\ [][NextWalk]_vars


(***************************************************************************)
(* Claims                                                                  *)
(***************************************************************************)
CacheKeys(cache) == {cache[i].key : i \in 1..Len(cache)}

C3_NoticeIffMore ==
    \A c \in Calls :
        (pc[c] = "done" /\ call[c].start_index < TLen(result[c].content))
        => LET out == result[c].out
               s == call[c].start_index
               m == call[c].max_length
           IN  /\ HasNotice(out) <=>
                     (/\ TLen(PageBody(out)) = m
                      /\ TLen(result[c].content) - (s + m) > 0)
               /\ HasNotice(out) => NoticeNext(out) = s + m

\* a page from the middle of a long text carries the notice, and a full
\* page that ends the content does not (another state shows that)
C3_Witness ==
    /\ pc[1] = "done"
    /\ call[1].start_index = 1
    /\ call[1].max_length = 999999
    /\ HasNotice(result[1].out)
    /\ NoticeNext(result[1].out) = 1000000

\* C8: classification has a fixed priority.  If a PDF predicate holds the
\* result is the PDF text with empty prefix, whatever the HTML predicates
\* and raw are; else if an HTML predicate holds and raw is false, the
\* simplified Markdown or the error marker with empty prefix; else the raw
\* text verbatim with a non-empty prefix.
C8_ClassificationPriority ==
    \A c \in Calls :
        pc[c] = "done" =>
        LET r == io[c].response
            text == Decode(r.content)
            pdf == \/ Contains(Lower(r.content_type), StrApplicationPdf)
                   \/ EndsWith(Lower(call[c].url), StrDotPdf)
                   \/ StartsWith(Expand(Take(r.content, 5)), StrPdfMagic)
            html == \/ Contains(Expand(Take(text, 100)), StrHtmlTag)
                    \/ Contains(r.content_type, StrTextHtml)
                    \/ r.content_type = <<>>
        IN  IF pdf
            THEN /\ result[c].cls \in {"pdf_hit", "pdf_miss"}
                 /\ result[c].prefix = <<>>
                 /\ OutPrefix(result[c].out) = <<>>
            ELSE IF html /\ ~call[c].raw
            THEN /\ result[c].cls = "html"
                 /\ result[c].content \in {HtmlErrorMarker, Markdownify(text)}
                 /\ result[c].prefix = <<>>
                 /\ OutPrefix(result[c].out) = <<>>
            ELSE /\ result[c].cls = "raw"
                 /\ result[c].content = text
                 /\ result[c].prefix # <<>>
                 /\ OutPrefix(result[c].out) = result[c].prefix

\* a raw request for an HTML page served as Application/PDF returned PDF text
C8_Witness ==
    /\ pc[1] = "done"
    /\ call[1].raw
    /\ call[1].url = UrlPage
    /\ Contains(io[1].response.content_type, <<"P", "D", "F">>)
    /\ Contains(Expand(Take(io[1].response.content, 100)), StrHtmlTag)
    /\ result[1].cls = "pdf_miss"
    /\ result[1].prefix = <<>>

\* C9: started without the ignore-robots option, the server ignores
\* robots.txt: ignoreRobotsTxt is true, and no call issues a robots.txt
\* request or is denied by robots.txt.
C9_DefaultIgnoresRobots ==
    (started /\ ~cli_flag)
    => /\ ignore_robots_txt = TRUE
       /\ \A c \in Calls :
             /\ io[c].robots = 0
             /\ result[c].error \notin {"connection_error", "forbidden",
                                        "disallowed"}

\* C10: paging from start_index 0 along the continuation notices, every
\* page body has between 1 and max_length characters and none is the
\* no-more-content marker; when a page carries no notice, the bodies
\* concatenated are the content and ceil(L / max_length) pages were read.
C10_PagesTileContent ==
    walk.on =>
        /\ ~walk.marker
        /\ \A i \in 1..Len(walk.sizes) :
              1 <= walk.sizes[i] /\ walk.sizes[i] <= walk.m
        /\ walk.over =>
              /\ walk.bodies = walk.content
              /\ walk.pages =
                     (TLen(walk.content) + walk.m - 1) \div walk.m

\* a walk of three pages, the last one shorter than max_length, is over
C10_Witness ==
    /\ walk.on /\ walk.over
    /\ walk.pages = 3
    /\ walk.sizes[3] < walk.m


\* C2: under robots.txt enforcement a call issues the target GET if and
\* only if its robots.txt GET, issued before, completed and either the
\* status was in [400,500) other than 401 and 403 or the rules, parsed
\* (any other status but 401/403), allow the URL; in every other case in
\* which the robots.txt GET ended the call has failed without a target GET.
C2_RobotsGate ==
    \A c \in Calls :
        (~ignore_robots_txt /\ pc[c] # "idle") =>
        LET r == io[c].robots_response
            completed == io[c].verdict # "none" /\ ~r.err
            client_error == 400 <= r.status /\ r.status < 500
            passes ==
                /\ completed
                /\ \/ client_error /\ r.status \notin {401, 403}
                   \/ /\ ~client_error
                      /\ CanFetch(ProcessedRobotsTxt(r.lines), call[c].url)
        IN  /\ io[c].get = 1 <=> passes
            /\ io[c].get \in {0, 1}
            /\ io[c].get = 1 => io[c].robots = 1
            /\ (io[c].verdict # "none" /\ ~passes) => pc[c] = "failed"

\* the target GET went out after robots.txt answered 499 with a body that
\* disallows everything
C2_Witness ==
    /\ ~ignore_robots_txt
    /\ pc[1] = "get"
    /\ io[1].get = 1
    /\ io[1].robots_response.status = 499
    /\ io[1].robots_response.lines = << <<"D", " ", "/">> >>

\* C4: an extraction that finds the URL's entry in the cache returns the
\* very text the extraction that stored the entry returned, and converts
\* nothing.
C4_HitReturnsFirstText ==
    [][\A c \in Calls :
          (pc[c] = "get" /\ pc'[c] = "done" /\ result'[c].cls = "pdf_hit")
          => /\ result'[c].content = CacheEntry(pdf_cache, call[c].url).ret
             /\ io'[c].convert = 0]_vars

\* C6: on a cache miss the text returned is the converted text capped to
\* 10,000,000 characters, the value stored for the URL, with empty prefix.
C6_MissReturnsCappedText ==
    [][\A c \in Calls :
          (pc[c] = "tmp" /\ pc'[c] = "done")
          => /\ TLen(CacheEntry(pdf_cache', call[c].url).value) <= 10000000
             /\ result'[c].content = CacheEntry(pdf_cache', call[c].url).value
             /\ result'[c].prefix = <<>>]_vars

\* C7: no temporary file outlives the conversion that created it, however
\* the conversion ended.
C7_TmpFilesRemoved ==
    \A f \in tmp_files : \E c \in Calls : pc[c] = "tmp" /\ pend[c].tmp_path = f

=============================================================================
